---- MODULE Spec2Model ----
(***************************************************************************)
(* Model of ConfidenceBased_Hierarchical_IDS_Design.ipynb:                 *)
(*   preprocess(raw_data, fitted_scaler)         (notebook lines 195-233)  *)
(*   HierarchicalIDS.predict / _combine_confidence        (lines 137-177)  *)
(*   the deployment cell that builds `results`            (lines 243-268)  *)
(*                                                                         *)
(* Numbers.  Confidences are fixed-point integers, ONE = 1.0, one unit =   *)
(* 1e-7.  Classifier confidences are multiples of 10 units (1e-6), so that *)
(* 0.6*a + 0.4*b is an exact integer.  Feature values are even integers so *)
(* that the median of an even number of values is exact; scaled values are *)
(* expressed in half units so that (x - mean) / scale is exact for the     *)
(* scales 1 and 2.                                                         *)
(***************************************************************************)
EXTENDS Integers, Sequences, FiniteSets, TLC

VARIABLES
    raw,                \* new_traffic_data: the raw DataFrame
    scaler,             \* fitted_scaler
    threshold,          \* hids.binary_threshold
    pc,                 \* position in the deployment cell / in predict
    clean,              \* outcome of preprocess: sample_traffic or the exception
    binary_pred,        \* predict: binary_pred
    binary_confidence,  \* predict: binary_confidence
    i,                  \* predict: loop index (0-based, as in the source)
    final_pred,         \* predict: final_pred, filled up to i
    confidence_scores,  \* predict: confidence_scores, filled up to i
    refiner_calls,      \* every slice X[a:b] handed to multiclass_model so far
    results,            \* rows of the `results` DataFrame
    err                 \* the exception that ended the cell, "none" if none

vars == <<raw, scaler, threshold, pc, clean, binary_pred, binary_confidence, i,
          final_pred, confidence_scores, refiner_calls, results, err>>

-----------------------------------------------------------------------------
(* Bounds of the model *)

\* longest raw batch of the deployment specification
MaxRows == 2
\* longest raw batch of the preprocess-only specification
PreMaxRows == 4

-----------------------------------------------------------------------------
(* Cells of a DataFrame *)

Num(x) == [k |-> "num", v |-> x]
NaN    == [k |-> "nan", v |-> 0]
PosInf == [k |-> "inf", v |-> 1]
NegInf == [k |-> "inf", v |-> -1]
Str(x) == [k |-> "str", v |-> x]

IsFinite(c) == c.k = "num"
IsNaN(c)    == c.k = "nan"
IsInf(c)    == c.k = "inf"

\* columns whose dtype is object (identifier and timestamp); all others are float
ObjectColumns == {"flow_id", "timestamp"}

\* select_dtypes(include=np.number): is the column of a numeric dtype
IsNumericColumn(name) == name \notin ObjectColumns

Frame(cols, rows) == [columns |-> cols, rows |-> rows]

EmptyFrame == Frame(<<>>, <<>>)

\* the elements of s at the positions in P, in order
RECURSIVE PickFrom(_, _, _)
PickFrom(s, P, j) ==
    IF j > Len(s) THEN <<>>
    ELSE (IF j \in P THEN <<s[j]>> ELSE <<>>) \o PickFrom(s, P, j + 1)

\* positions of the first occurrence of each element of s
FirstOccurrences(s) ==
    {j \in 1..Len(s) : \A k \in 1..(j - 1) : s[k] # s[j]}

\* position of column `name` in a frame (first occurrence)
ColumnIndex(df, name) ==
    CHOOSE j \in 1..Len(df.columns) :
        /\ df.columns[j] = name
        /\ \A k \in 1..(j - 1) : df.columns[k] # name

-----------------------------------------------------------------------------
(* preprocess, step 1: duplicate columns and rows *)

\* raw_data.loc[:, ~raw_data.columns.duplicated()]
DropDuplicateColumns(df) ==
    LET keep == FirstOccurrences(df.columns)
    IN  Frame(PickFrom(df.columns, keep, 1),
              [r \in 1..Len(df.rows) |-> PickFrom(df.rows[r], keep, 1)])

\* clean_data.drop_duplicates(): keep="first", missing values compare equal
drop_duplicates(df) ==
    Frame(df.columns, PickFrom(df.rows, FirstOccurrences(df.rows), 1))

(* step 2: clean_data.replace([np.inf, -np.inf], np.nan) *)
ReplaceInf(df) ==
    Frame(df.columns,
          [r \in 1..Len(df.rows) |->
              [j \in 1..Len(df.columns) |->
                  IF IsInf(df.rows[r][j]) THEN NaN ELSE df.rows[r][j]]])

(* step 3: median imputation *)

RECURSIVE Insert(_, _)
Insert(x, s) ==
    IF s = <<>> THEN <<x>>
    ELSE IF x <= Head(s) THEN <<x>> \o s
    ELSE <<Head(s)>> \o Insert(x, Tail(s))

RECURSIVE SortInts(_)
SortInts(s) == IF s = <<>> THEN <<>> ELSE Insert(Head(s), SortInts(Tail(s)))

\* the values of column j, top to bottom
ColumnCells(df, j) == [r \in 1..Len(df.rows) |-> df.rows[r][j]]

\* Series.median(): missing values are skipped; NaN for an all-missing column
median(cells) ==
    LET fin == PickFrom(cells, {r \in 1..Len(cells) : IsFinite(cells[r])}, 1)
        s   == SortInts([r \in 1..Len(fin) |-> fin[r].v])
        n   == Len(s)
    IN  IF n = 0 THEN NaN
        ELSE IF n % 2 = 1 THEN Num(s[(n + 1) \div 2])
        ELSE Num((s[n \div 2] + s[n \div 2 + 1]) \div 2)

\* numeric_cols = clean_data.select_dtypes(include=np.number).columns
numeric_cols(df) ==
    {j \in 1..Len(df.columns) : IsNumericColumn(df.columns[j])}

\* for col in numeric_cols: if isna().any(): fillna(median, inplace=True)
\* (the in-place fill of clean_data[col] writes through to clean_data, as it
\* does in the pandas releases available to the notebook's Python 3.10 kernel)
FillMissing(df) ==
    Frame(df.columns,
          [r \in 1..Len(df.rows) |->
              [j \in 1..Len(df.columns) |->
                  IF j \in numeric_cols(df) /\ IsNaN(df.rows[r][j])
                  THEN median(ColumnCells(df, j))
                  ELSE df.rows[r][j]]])

(* step 4: fitted_scaler.transform on the numeric columns *)

\* the names of the numeric columns, in frame order
NumericNames(df) == PickFrom(df.columns, numeric_cols(df), 1)

\* StandardScaler.transform validates its input before scaling it: the column
\* names must be the ones seen in fit, and there must be at least one sample.
\* The result is the cause of the ValueError, "none" when the input is accepted.
TransformRejects(sc, df) ==
    IF NumericNames(df) # sc.feature_names_in_ THEN "feature_names"
    ELSE IF Len(df.rows) = 0 THEN "no_samples"
    ELSE "none"

\* (x - mean_) / scale_, in half units
StandardScale(x, mean, scale) == (2 * (x - mean)) \div scale

\* StandardScaler.transform on one cell: missing values are passed through
TransformCell(sc, f, c) ==
    IF IsFinite(c) THEN Num(StandardScale(c.v, sc.mean_[f], sc.scale_[f])) ELSE c

\* clean_data[numeric_cols] = fitted_scaler.transform(clean_data[numeric_cols])
ScaleNumeric(sc, df) ==
    Frame(df.columns,
          [r \in 1..Len(df.rows) |->
              [j \in 1..Len(df.columns) |->
                  IF j \in numeric_cols(df)
                  THEN TransformCell(sc,
                           Cardinality({k \in numeric_cols(df) : k <= j}),
                           df.rows[r][j])
                  ELSE df.rows[r][j]]])

Returned(df)  == [error |-> "none", cause |-> "none", frame |-> df]
Raised(e, c)  == [error |-> e, cause |-> c, frame |-> EmptyFrame]

\* preprocess(raw_data, fitted_scaler): steps 1-3, before the scaler is applied
CleanBeforeScaling_impute_first(raw_data) ==
    drop_duplicates(FillMissing(ReplaceInf(DropDuplicateColumns(raw_data))))

CleanBeforeScaling(raw_data) ==
    FillMissing(ReplaceInf(drop_duplicates(DropDuplicateColumns(raw_data))))

\* preprocess(raw_data, fitted_scaler)
preprocess(raw_data, fitted_scaler) ==
    LET clean_data == CleanBeforeScaling(raw_data)
        cause      == TransformRejects(fitted_scaler, clean_data)
    IN  IF cause # "none" THEN Raised("ValueError", cause)
        ELSE Returned(ScaleNumeric(fitted_scaler, clean_data))

-----------------------------------------------------------------------------
(* Confidences: fixed point, ONE = 1.0, one unit = 1e-7 *)

ONE == 10 * 1000 * 1000

\* binary_threshold=0.8, the default of HierarchicalIDS.__init__
DefaultThreshold == 8000000
\* binary_threshold=0.85, the value the deployment cell configures
DeployedThreshold == 8500000
\* confidence > 0.85 -> 'block'
BlockCutoff == 8500000
\* confidence > 0.6 -> 'investigate'
InvestigateCutoff == 6000000

\* if binary_pred[i] == 'malicious' and binary_confidence[i] >= self.binary_threshold
Escalates_strict(label, conf, thr) == label = "malicious" /\ conf > thr

Escalates_any_label(label, conf, thr) == conf >= thr

Escalates(label, conf, thr) == label = "malicious" /\ conf >= thr

\* _combine_confidence: 0.6 * binary_conf + 0.4 * multiclass_conf
combine_unnormalised(binary_conf, multiclass_conf) ==
    (6 * binary_conf + 6 * multiclass_conf) \div 10

_combine_confidence(binary_conf, multiclass_conf) ==
    (6 * binary_conf + 4 * multiclass_conf) \div 10

\* 'benign' if binary_pred[i] == 'benign' else 'suspicious_malicious'
ResolvedLabel(label) ==
    IF label = "benign" THEN "benign" ELSE "suspicious_malicious"

\* np.where(confidence > 0.85, 'block', np.where(confidence > 0.6, 'investigate', 'allow'))
action_recommended_inclusive(confidence) ==
    IF confidence >= BlockCutoff THEN "block"
    ELSE IF confidence >= InvestigateCutoff THEN "investigate"
    ELSE "allow"

action_recommended(confidence) ==
    IF confidence > BlockCutoff THEN "block"
    ELSE IF confidence > InvestigateCutoff THEN "investigate"
    ELSE "allow"

\* np.round(confidence, 4): to the nearest 1e-4, halves to the even neighbour
Round4(confidence) ==
    LET q == confidence \div 1000
        r == confidence % 1000
        up == \/ r > 500
              \/ r = 500 /\ q % 2 = 1
    IN  1000 * (IF up THEN q + 1 ELSE q)

\* one row of the `results` DataFrame
ResultRow_tier_of_rounded(flow_id, timestamp, prediction, confidence) ==
    [flow_id            |-> flow_id,
     timestamp          |-> timestamp,
     prediction         |-> prediction,
     confidence         |-> Round4(confidence),
     action_recommended |-> action_recommended(Round4(confidence))]

ResultRow(flow_id, timestamp, prediction, confidence) ==
    [flow_id            |-> flow_id,
     timestamp          |-> timestamp,
     prediction         |-> prediction,
     confidence         |-> Round4(confidence),
     action_recommended |-> action_recommended(confidence)]

-----------------------------------------------------------------------------
(* Inputs *)

SeqsUpTo(S, n) == UNION {[1..k -> S] : k \in 0..n}

PlainColumns   == <<"flow_id", "timestamp", "f1">>
DupColumns     == <<"flow_id", "timestamp", "f1", "f1">>
ExtraColumns   == <<"flow_id", "timestamp", "f1", "f2">>
MissingColumns == <<"flow_id", "timestamp">>

FeatureValues == {Num(0), Num(4), NaN, PosInf, NegInf}

Key(id) == <<Str(id), Str(100 + id)>>

\* fitted scalers: fitted on the one feature f1
Scalers ==
    {[feature_names_in_ |-> <<"f1">>, mean_ |-> <<0>>, scale_ |-> <<1>>],
     [feature_names_in_ |-> <<"f1">>, mean_ |-> <<2>>, scale_ |-> <<2>>]}

\* the scaler of the deployment specification
DeployedScalers ==
    {[feature_names_in_ |-> <<"f1">>, mean_ |-> <<2>>, scale_ |-> <<2>>]}

\* batches of the preprocess-only specification
PreBatches ==
    {Frame(PlainColumns, rs) :
        rs \in SeqsUpTo({Key(1) \o <<v>> : v \in FeatureValues}
                        \cup {Key(2) \o <<v>> : v \in {Num(0), NaN}},
                        PreMaxRows)}
    \cup
    {Frame(DupColumns, rs) :
        rs \in SeqsUpTo({Key(1) \o vw :
                             vw \in {<<Num(0), Num(0)>>, <<Num(0), Num(4)>>,
                                     <<Num(4), Num(0)>>, <<NaN, Num(0)>>,
                                     <<NaN, Num(4)>>, <<PosInf, Num(4)>>}},
                        PreMaxRows)}
    \cup
    {Frame(ExtraColumns, rs) :
        rs \in SeqsUpTo({Key(1) \o <<Num(0), Num(0)>>}, PreMaxRows)}
    \cup
    {Frame(MissingColumns, rs) : rs \in SeqsUpTo({Key(1)}, PreMaxRows)}

\* batches of the deployment specification
Batches ==
    {Frame(PlainColumns, rs) :
        rs \in SeqsUpTo({Key(1) \o <<Num(0)>>, Key(2) \o <<Num(0)>>,
                         Key(1) \o <<PosInf>>}, MaxRows)}
    \cup
    {Frame(DupColumns, rs) :
        rs \in SeqsUpTo({Key(1) \o <<Num(0), Num(0)>>,
                         Key(1) \o <<Num(0), Num(4)>>}, MaxRows)}
    \cup
    {Frame(ExtraColumns, rs) :
        rs \in SeqsUpTo({Key(1) \o <<Num(0), Num(0)>>}, 1)}

Thresholds == {DefaultThreshold, DeployedThreshold}

\* labels of the binary model
GateLabels == {"benign", "malicious"}
\* max class probability of a two-class model: at least 0.5
GateConfidences == {5000000, 6000000, 6000010, 8499990, 8500000, 8500010, ONE}
\* labels of the multiclass model
AttackTypes == {"DDoS", "PortScan"}
\* max class probability of the multiclass model
AttackConfidences == {4000000, 8500000, ONE}

-----------------------------------------------------------------------------
(* The deployment cell *)

Idle ==
    /\ threshold \in Thresholds
    /\ pc = "preprocess"
    /\ clean = Returned(EmptyFrame)
    /\ binary_pred = <<>>
    /\ binary_confidence = <<>>
    /\ i = 0
    /\ final_pred = <<>>
    /\ confidence_scores = <<>>
    /\ refiner_calls = <<>>
    /\ results = <<>>
    /\ err = "none"

Init ==
    /\ raw \in Batches
    /\ scaler \in DeployedScalers
    /\ Idle

InitPre ==
    /\ raw \in PreBatches
    /\ scaler \in Scalers
    /\ Idle
    /\ threshold = DefaultThreshold

\* sample_traffic = preprocess(new_traffic_data, fitted_scaler)
\* (line 251 writes preprocess(new_traffic_data) without the scaler, which as
\* written is a TypeError; the call is modelled with the fitted scaler passed,
\* as the signature and the docstring of preprocess require)
RunPreprocess_ignores_failure ==
    /\ pc = "preprocess"
    /\ clean' = preprocess(raw, scaler)
    /\ err' = "none"
    /\ pc' = "gate"
    /\ UNCHANGED <<raw, scaler, threshold, binary_pred, binary_confidence, i,
                   final_pred, confidence_scores, refiner_calls, results>>

RunPreprocess ==
    /\ pc = "preprocess"
    /\ clean' = preprocess(raw, scaler)
    /\ err' = clean'.error
    /\ pc' = IF clean'.error = "none" THEN "gate" ELSE "raised"
    /\ UNCHANGED <<raw, scaler, threshold, binary_pred, binary_confidence, i,
                   final_pred, confidence_scores, refiner_calls, results>>

NextPre == RunPreprocess

SpecPre == InitPre /\ [][NextPre]_vars

-----------------------------------------------------------------------------
(* HierarchicalIDS.predict(sample_traffic) *)

\* X.shape[0]
n_samples == Len(clean.frame.rows)

\* one call of a multiclass_model method on the slice X[start:stop]
Call(method, start, stop, out) ==
    [method |-> method, start |-> start, stop |-> stop, out |-> out]

\* an exception raised by a model call inside predict: nothing catches it, it
\* leaves predict and ends the cell
RaiseInPredict_caught ==
    /\ pc = "loop"
    /\ final_pred' = [final_pred EXCEPT ![i + 1] = "error"]
    /\ i' = i + 1
    /\ UNCHANGED <<pc, err, confidence_scores>>

RaiseInPredict ==
    /\ pc' = "raised"
    /\ err' = "ModelInferenceError"
    /\ UNCHANGED <<i, final_pred, confidence_scores>>

\* binary_model.predict_proba(X) or binary_model.predict(X) raises
GateRaises ==
    /\ pc = "gate"
    /\ pc' = "raised"
    /\ err' = "ModelInferenceError"
    /\ UNCHANGED <<raw, scaler, threshold, clean, binary_pred, binary_confidence,
                   i, final_pred, confidence_scores, refiner_calls, results>>

\* binary stage on the whole batch, then the output arrays are initialised
GateStage ==
    /\ pc = "gate"
    /\ \E bp \in [1..n_samples -> GateLabels],
          bc \in [1..n_samples -> GateConfidences] :
            /\ binary_pred' = bp
            /\ binary_confidence' = bc
    /\ final_pred' = [r \in 1..n_samples |-> "None"]
    /\ confidence_scores' = [r \in 1..n_samples |-> 0]
    /\ i' = 0
    /\ pc' = "loop"
    /\ UNCHANGED <<raw, scaler, threshold, clean, refiner_calls, results, err>>

\* loop body, else branch: low confidence or benign traffic
Resolve ==
    /\ pc = "loop"
    /\ i < n_samples
    /\ ~Escalates(binary_pred[i + 1], binary_confidence[i + 1], threshold)
    /\ final_pred' = [final_pred EXCEPT ![i + 1] = ResolvedLabel(binary_pred[i + 1])]
    /\ confidence_scores' =
           [confidence_scores EXCEPT ![i + 1] = binary_confidence[i + 1]]
    /\ i' = i + 1
    /\ UNCHANGED <<raw, scaler, threshold, pc, clean, binary_pred,
                   binary_confidence, refiner_calls, results, err>>

\* loop body, then branch: both multiclass calls on X[i:i+1] return
Refine ==
    /\ pc = "loop"
    /\ i < n_samples
    /\ Escalates(binary_pred[i + 1], binary_confidence[i + 1], threshold)
    /\ \E attack_type \in AttackTypes, attack_confidence \in AttackConfidences :
        /\ refiner_calls' = refiner_calls \o
               <<Call("predict", i, i + 1, Str(attack_type)),
                 Call("predict_proba", i, i + 1, Num(attack_confidence))>>
        /\ final_pred' = [final_pred EXCEPT ![i + 1] = attack_type]
        /\ confidence_scores' =
               [confidence_scores EXCEPT ![i + 1] =
                    _combine_confidence(binary_confidence[i + 1], attack_confidence)]
    /\ i' = i + 1
    /\ UNCHANGED <<raw, scaler, threshold, pc, clean, binary_pred,
                   binary_confidence, results, err>>

\* loop body, then branch: multiclass_model.predict(X[i:i+1]) raises
RefinerPredictRaises ==
    /\ pc = "loop"
    /\ i < n_samples
    /\ Escalates(binary_pred[i + 1], binary_confidence[i + 1], threshold)
    /\ refiner_calls' = refiner_calls \o <<Call("predict", i, i + 1, NaN)>>
    /\ RaiseInPredict
    /\ UNCHANGED <<raw, scaler, threshold, clean, binary_pred, binary_confidence,
                   results>>

\* loop body, then branch: multiclass_model.predict_proba(X[i:i+1]) raises
RefinerProbaRaises ==
    /\ pc = "loop"
    /\ i < n_samples
    /\ Escalates(binary_pred[i + 1], binary_confidence[i + 1], threshold)
    /\ \E attack_type \in AttackTypes :
        refiner_calls' = refiner_calls \o
            <<Call("predict", i, i + 1, Str(attack_type)),
              Call("predict_proba", i, i + 1, NaN)>>
    /\ RaiseInPredict
    /\ UNCHANGED <<raw, scaler, threshold, clean, binary_pred, binary_confidence,
                   results>>

\* return final_pred, confidence_scores
Return ==
    /\ pc = "loop"
    /\ i = n_samples
    /\ pc' = "report"
    /\ UNCHANGED <<raw, scaler, threshold, clean, binary_pred, binary_confidence,
                   i, final_pred, confidence_scores, refiner_calls, results, err>>

-----------------------------------------------------------------------------
(* results = pd.DataFrame({...}); results.to_csv(...) *)

\* the columns taken from new_traffic_data are Series over its index; the
\* prediction and confidence arrays must have that length, or the constructor
\* raises ValueError
BuildResults ==
    /\ pc = "report"
    /\ IF Len(final_pred) # Len(raw.rows)
       THEN /\ pc' = "raised"
            /\ err' = "ValueError"
            /\ UNCHANGED results
       ELSE /\ results' =
                [r \in 1..Len(raw.rows) |->
                    ResultRow(raw.rows[r][ColumnIndex(raw, "flow_id")],
                              raw.rows[r][ColumnIndex(raw, "timestamp")],
                              final_pred[r],
                              confidence_scores[r])]
            /\ pc' = "done"
            /\ UNCHANGED err
    /\ UNCHANGED <<raw, scaler, threshold, clean, binary_pred, binary_confidence,
                   i, final_pred, confidence_scores, refiner_calls>>

Next ==
    \/ RunPreprocess
    \/ GateRaises
    \/ GateStage
    \/ Resolve
    \/ Refine
    \/ RefinerPredictRaises
    \/ RefinerProbaRaises
    \/ Return
    \/ BuildResults

Spec == Init /\ [][Next]_vars

-----------------------------------------------------------------------------
(* Vocabulary of the properties *)

\* records whose loop iteration has completed
Processed == 1..(IF Len(final_pred) = 0 THEN 0 ELSE i)

\* the gate's verdict asks for refinement of record r
GateFlags(r) ==
    /\ binary_pred[r] = "malicious"
    /\ binary_confidence[r] >= threshold

\* the multiclass calls made for record r (0-based slice start r - 1)
CallsFor(r) ==
    {k \in 1..Len(refiner_calls) : refiner_calls[k].start = r - 1}

\* what `method` of the multiclass model returned for record r
RefinerOut(r, method) ==
    refiner_calls[CHOOSE k \in CallsFor(r) : refiner_calls[k].method = method].out

InUnit(c) == 0 <= c /\ c <= ONE

\* C1: predict escalates a record iff the gate says malicious with confidence
\* >= binary_threshold (inclusive); an escalated record gets the refiner's tag
\* and 0.6*gate + 0.4*refiner, any other record gets benign /
\* suspicious_malicious and the gate confidence unchanged.
C1_EscalationRule ==
    \A r \in Processed :
        /\ (CallsFor(r) # {}) <=> GateFlags(r)
        /\ GateFlags(r) =>
              /\ Str(final_pred[r]) = RefinerOut(r, "predict")
              /\ final_pred[r] \in AttackTypes
              /\ 10 * confidence_scores[r] =
                     6 * binary_confidence[r]
                     + 4 * RefinerOut(r, "predict_proba").v
        /\ ~GateFlags(r) =>
              /\ binary_pred[r] = "benign" => final_pred[r] = "benign"
              /\ binary_pred[r] # "benign" => final_pred[r] = "suspicious_malicious"
              /\ confidence_scores[r] = binary_confidence[r]

\* a malicious record exactly at the threshold was refined, and a malicious
\* record one step below it was resolved at the gate
C1_Witness ==
    /\ pc = "done"
    /\ threshold = DeployedThreshold
    /\ \E r \in Processed :
          /\ binary_pred[r] = "malicious"
          /\ binary_confidence[r] = threshold
          /\ final_pred[r] \in AttackTypes
    /\ \E r \in Processed :
          /\ binary_pred[r] = "malicious"
          /\ binary_confidence[r] = threshold - 10
          /\ final_pred[r] = "suspicious_malicious"

\* C2: the multiclass model is only ever called on a one-record slice, after
\* the gate's verdicts exist, for a record the gate flagged; a label that is an
\* attack type belongs to a record the refiner was called for, and a record it
\* was not called for is benign or suspicious_malicious.
C2_RefinerOnlyWhenFlagged ==
    /\ \A k \in 1..Len(refiner_calls) :
          LET c == refiner_calls[k]
          IN  /\ c.stop = c.start + 1
              /\ c.start >= 0 /\ c.start < n_samples
              /\ Len(binary_pred) = n_samples
              /\ binary_pred[c.start + 1] = "malicious"
              /\ binary_confidence[c.start + 1] >= threshold
    /\ \A r \in Processed :
          /\ final_pred[r] \in AttackTypes => CallsFor(r) # {}
          /\ CallsFor(r) = {} =>
                final_pred[r] \in {"benign", "suspicious_malicious"}
    /\ \A r \in 1..Len(results) :
          /\ results[r].prediction \in AttackTypes => CallsFor(r) # {}
          /\ CallsFor(r) = {} =>
                results[r].prediction \in {"benign", "suspicious_malicious"}

\* a finished batch in which one record was refined and another, benign with
\* a confidence above the threshold, was not
C2_Witness ==
    /\ pc = "done"
    /\ \E r \in 1..Len(results) :
          results[r].prediction \in AttackTypes /\ CallsFor(r) # {}
    /\ \E r \in 1..Len(results) :
          /\ binary_pred[r] = "benign"
          /\ binary_confidence[r] >= threshold
          /\ CallsFor(r) = {}
          /\ results[r].prediction = "benign"

Ended == pc \in {"done", "raised"}

C5_ConfidenceInUnitInterval ==
    /\ \A r \in Processed :
          /\ InUnit(confidence_scores[r])
          /\ CallsFor(r) # {} =>
                \E b \in AttackConfidences :
                    /\ RefinerOut(r, "predict_proba") = Num(b)
                    /\ 10 * confidence_scores[r] = 6 * binary_confidence[r] + 4 * b
    /\ \A r \in 1..Len(results) : InUnit(results[r].confidence)

\* gate 1.0 and refiner 1.0 combine to exactly 1.0, the upper end
C5_Witness ==
    /\ pc = "done"
    /\ \E r \in 1..Len(results) :
          /\ CallsFor(r) # {}
          /\ binary_confidence[r] = ONE
          /\ RefinerOut(r, "predict_proba") = Num(ONE)
          /\ confidence_scores[r] = ONE

\* C6, as claimed: a batch that passes preprocessing and inference ends with
\* exactly one Decision per input record, each carrying the identifier and the
\* timestamp of the record whose cleaned vector produced it.
C6_OneDecisionPerInputRecord ==
    (Ended /\ clean.error = "none" /\ err # "ModelInferenceError") =>
        /\ Len(results) = Len(raw.rows)
        /\ \A r \in 1..Len(results) :
              /\ results[r].flow_id = raw.rows[r][ColumnIndex(raw, "flow_id")]
              /\ results[r].timestamp = raw.rows[r][ColumnIndex(raw, "timestamp")]
              /\ results[r].flow_id =
                     clean.frame.rows[r][ColumnIndex(clean.frame, "flow_id")]
              /\ results[r].prediction = final_pred[r]

\* C7, as claimed: when preprocess returns, no numeric cell of the returned
\* matrix is missing or infinite.
C7_NoMissingAfterPreprocess ==
    (pc # "preprocess" /\ clean.error = "none") =>
        \A r \in 1..Len(clean.frame.rows) :
            \A j \in numeric_cols(clean.frame) :
                IsFinite(clean.frame.rows[r][j])

\* the numeric column names of the raw batch, duplicates collapsed
RawNumericNames ==
    {raw.columns[j] : j \in {k \in 1..Len(raw.columns) :
                                 raw.columns[k] \notin {"flow_id", "timestamp"}}}

SchemaMismatch ==
    RawNumericNames # {scaler.feature_names_in_[f] :
                           f \in 1..Len(scaler.feature_names_in_)}

EmptyBatch == Cardinality({raw.rows[r] : r \in 1..Len(raw.rows)}) = 0

KeptColumns ==
    {j \in 1..Len(raw.columns) : \A k \in 1..(j - 1) : raw.columns[k] # raw.columns[j]}

\* names of the surviving columns, in order
KeptNames == PickFrom(raw.columns, KeptColumns, 1)

\* the deduplicated raw rows: the distinct rows over the surviving columns
DistinctRows ==
    {PickFrom(raw.rows[r], KeptColumns, 1) : r \in 1..Len(raw.rows)}

\* the deduplicated rows whose cell in column j is finite
FiniteIn(j) == {d \in DistinctRows : d[j].k = "num"}

\* the p-th smallest finite value of column j over the deduplicated rows
AtRank(j, p) ==
    CHOOSE x \in {d[j].v : d \in FiniteIn(j)} :
        /\ Cardinality({d \in FiniteIn(j) : d[j].v < x}) < p
        /\ p <= Cardinality({d \in FiniteIn(j) : d[j].v <= x})

\* twice the median of column j over the deduplicated rows, finite values only
TwiceMedian(j) ==
    LET n == Cardinality(FiniteIn(j))
    IN  AtRank(j, (n + 1) \div 2) + AtRank(j, n \div 2 + 1)

\* which feature of the scaler column j of the surviving columns is
FeatureOf(j) ==
    Cardinality({k \in 1..j : KeptNames[k] \notin {"flow_id", "timestamp"}})

\* output row o is deduplicated raw row d, cleaned and scaled as claimed
CleanedAs(o, d) ==
    /\ Len(o) = Len(d)
    /\ \A j \in 1..Len(d) :
          IF KeptNames[j] \in {"flow_id", "timestamp"} THEN o[j] = d[j]
          ELSE LET mean  == scaler.mean_[FeatureOf(j)]
                   scale == scaler.scale_[FeatureOf(j)]
               IN  IF d[j].k = "num"
                   THEN o[j].k = "num" /\ o[j].v * scale = 2 * (d[j].v - mean)
                   ELSE FiniteIn(j) # {} =>
                            /\ o[j].k = "num"
                            /\ o[j].v * scale = TwiceMedian(j) - 2 * mean

\* C9: the matrix preprocess returns has one row per deduplicated raw row; a
\* finite cell is the scaled raw value, a missing or infinite cell is the
\* scaled median of its column taken over the deduplicated rows and the
\* finite raw values only.
C9_MedianOverDeduplicatedFinite ==
    (pc # "preprocess" /\ clean.error = "none") =>
        LET out == clean.frame.rows
        IN  /\ Len(out) = Cardinality(DistinctRows)
            /\ clean.frame.columns = KeptNames
            /\ \A d \in DistinctRows : \E r \in 1..Len(out) : CleanedAs(out[r], d)
            /\ \A r \in 1..Len(out) : \E d \in DistinctRows : CleanedAs(out[r], d)

\* rows 0, 0, 4, +inf of one flow: the duplicate 0 is dropped, and the
\* infinite cell becomes the scaled median 2 of {0, 4}, not the median 0 of
\* {0, 0, 4}
C9_Witness ==
    /\ pc = "gate"
    /\ raw = Frame(PlainColumns,
                   <<Key(1) \o <<Num(0)>>, Key(1) \o <<Num(0)>>,
                     Key(1) \o <<Num(4)>>, Key(1) \o <<PosInf>>>>)
    /\ Len(clean.frame.rows) = 3
    /\ clean.frame.rows[3][3].k = "num"
    /\ clean.frame.rows[3][3].v * scaler.scale_[1] = 2 * (2 - scaler.mean_[1])

\* C10: every row reports the confidence rounded to 4 decimals and the tier of
\* the unrounded confidence.
C10_TierFromUnroundedConfidence ==
    \A r \in 1..Len(results) :
        LET c   == confidence_scores[r]
            row == results[r]
        IN  /\ row.confidence % 1000 = 0
            /\ 2 * (row.confidence - c) <= 1000
            /\ 2 * (c - row.confidence) <= 1000
            /\ row.action_recommended =
                   (IF 100 * c > 85 * ONE THEN "block"
                    ELSE IF 100 * c > 60 * ONE THEN "investigate"
                    ELSE "allow")

\* a confidence of 0.850001 is reported as 0.85 and still blocked, and one of
\* 0.600001 is reported as 0.6 and still investigated
C10_Witness ==
    /\ pc = "done"
    /\ \E r \in 1..Len(results) :
          /\ 100 * confidence_scores[r] > 85 * ONE
          /\ 100 * results[r].confidence = 85 * ONE
          /\ results[r].action_recommended = "block"
    /\ \E r \in 1..Len(results) :
          /\ 100 * confidence_scores[r] > 60 * ONE
          /\ 100 * results[r].confidence = 60 * ONE
          /\ results[r].action_recommended = "investigate"
====
